---- MODULE Spec2Model ----
(***************************************************************************)
(* A model of vecui (src/lib/main.ts): the immutable 2D vector Vec, the    *)
(* rectangle Rect and the factories vec() and rect().                      *)
(*                                                                         *)
(* The library is a set of pure methods over immutable objects.  The state *)
(* of the model is what a caller of the library holds: the Vec and Rect    *)
(* objects that exist (an object's index in `vecs` / `rects` is its        *)
(* identity), the last call made and the value it returned.                *)
(*                                                                         *)
(* Numbers are IEEE-754 doubles in the code.  The model keeps NaN, the two *)
(* infinities, the two zeros and the dyadic rationals n/d of small size,   *)
(* on which double arithmetic is exact; a call whose result would leave    *)
(* that range is not taken (see Representable).  A quotient n/5 stands for *)
(* the double nearest to it, which is what a correctly rounded division    *)
(* and a decimal literal both give; no arithmetic is done on it (see       *)
(* ExactOperands).                                                         *)
(***************************************************************************)
EXTENDS Integers, Sequences, FiniteSets, TLC

\* ------------------------------------------------------------------ bounds
MaxNum == 5        \* largest numerator of a finite number kept in the state
MaxDen == 2        \* largest denominator of a finite number kept in the state
MaxChain == 2      \* length of the chains of calls of SpecChain

\* ----------------------------------------------------------------- numbers
\* A number is a record [n, d]: n/d in lowest terms with d > 0 when finite and
\* non-zero, +0 = 0/1, -0 = 0/-1, +Infinity = 1/0, -Infinity = -1/0, NaN = 0/0.
Num(n, d) == [n |-> n, d |-> d]
NaN == Num(0, 0)
PosInf == Num(1, 0)
NegInf == Num(-1, 0)
Zero == Num(0, 1)
NegZero == Num(0, -1)
One == Num(1, 1)

Abs(i) == IF i < 0 THEN -i ELSE i

RECURSIVE Gcd(_, _)
Gcd(a, b) == IF b = 0 THEN a ELSE Gcd(b, a % b)

\* the finite number n/d (d > 0) in lowest terms; a zero result is +0
Fin(n, d) ==
  LET g == Gcd(Abs(n), d)
  IN  IF n = 0 THEN Zero ELSE Num(n \div g, d \div g)

Int2Num(i) == Fin(i, 1)

IsNaN(a) == a.n = 0 /\ a.d = 0
IsInf(a) == a.n # 0 /\ a.d = 0
IsZero(a) == a.n = 0 /\ a.d # 0
IsFinite(a) == a.d # 0
\* the sign bit of a number that is not NaN
IsNeg(a) == a.n < 0 \/ (a.n = 0 /\ a.d < 0)

SignedInf(neg) == IF neg THEN NegInf ELSE PosInf
SignedZero(neg) == IF neg THEN NegZero ELSE Zero

\* unary minus
NumNeg(a) ==
  IF IsNaN(a) THEN NaN
  ELSE IF IsZero(a) THEN Num(0, -a.d)
  ELSE Num(-a.n, a.d)

\* a + b
NumAdd(a, b) ==
  IF IsNaN(a) \/ IsNaN(b) THEN NaN
  ELSE IF IsInf(a) /\ IsInf(b) THEN (IF a = b THEN a ELSE NaN)
  ELSE IF IsInf(a) THEN a
  ELSE IF IsInf(b) THEN b
  ELSE IF IsZero(a) /\ IsZero(b)
       THEN (IF a = NegZero /\ b = NegZero THEN NegZero ELSE Zero)
  ELSE Fin(a.n * Abs(b.d) + b.n * Abs(a.d), Abs(a.d) * Abs(b.d))

\* a - b
NumSub(a, b) == NumAdd(a, NumNeg(b))

\* a * b
NumMul(a, b) ==
  IF IsNaN(a) \/ IsNaN(b) THEN NaN
  ELSE IF (IsInf(a) /\ IsZero(b)) \/ (IsZero(a) /\ IsInf(b)) THEN NaN
  ELSE IF IsInf(a) \/ IsInf(b) THEN SignedInf(IsNeg(a) # IsNeg(b))
  ELSE IF IsZero(a) \/ IsZero(b) THEN SignedZero(IsNeg(a) # IsNeg(b))
  ELSE Fin(a.n * b.n, a.d * b.d)

\* a / b
NumDiv(a, b) ==
  IF IsNaN(a) \/ IsNaN(b) THEN NaN
  ELSE IF (IsInf(a) /\ IsInf(b)) \/ (IsZero(a) /\ IsZero(b)) THEN NaN
  ELSE IF IsInf(a) \/ IsZero(b) THEN SignedInf(IsNeg(a) # IsNeg(b))
  ELSE IF IsInf(b) \/ IsZero(a) THEN SignedZero(IsNeg(a) # IsNeg(b))
  ELSE Fin((IF IsNeg(a) # IsNeg(b) THEN -1 ELSE 1) * Abs(a.n) * b.d,
           Abs(b.n) * a.d)

\* a <= b
NumLte(a, b) ==
  IF IsNaN(a) \/ IsNaN(b) THEN FALSE
  ELSE IF a = NegInf \/ b = PosInf THEN TRUE
  ELSE IF a = PosInf \/ b = NegInf THEN FALSE
  ELSE a.n * Abs(b.d) <= b.n * Abs(a.d)

\* a >= b
NumGte(a, b) == NumLte(b, a)

\* a === b
StrictEq(a, b) ==
  IF IsNaN(a) \/ IsNaN(b) THEN FALSE
  ELSE a = b \/ (IsZero(a) /\ IsZero(b))

\* the integer square root of a perfect square, -1 otherwise
ISqrt(i) ==
  IF \E r \in 0..i : r * r = i THEN CHOOSE r \in 0..i : r * r = i ELSE -1

\* Math.sqrt is exact on the specials, the zeros and the squares of rationals
HasExactSqrt(a) ==
  \/ ~IsFinite(a)
  \/ IsNeg(a)
  \/ IsZero(a)
  \/ (ISqrt(a.n) >= 0 /\ ISqrt(a.d) >= 0)

\* Math.sqrt(a), where HasExactSqrt(a)
NumSqrt(a) ==
  IF IsNaN(a) THEN NaN
  ELSE IF IsZero(a) THEN a
  ELSE IF IsNeg(a) THEN NaN
  ELSE IF IsInf(a) THEN PosInf
  ELSE Fin(ISqrt(a.n), ISqrt(a.d))

\* Math.cos and Math.sin are exact on the zeros and the specials only
HasExactTrig(a) == ~IsFinite(a) \/ IsZero(a)

\* Math.cos(a), where HasExactTrig(a)
NumCos(a) == IF IsZero(a) THEN One ELSE NaN

\* Math.sin(a), where HasExactTrig(a)
NumSin(a) == IF IsZero(a) THEN a ELSE NaN

\* Math.PI is a positive finite double outside the modelled range: a * Math.PI
\* is exact only when a is a zero or a special
HasExactPiMul(a) == ~IsFinite(a) \/ IsZero(a)

\* a * Math.PI, where HasExactPiMul(a)
MulPi(a) == a

\* the numbers the state holds: the specials, the zeros, the dyadic
\* rationals n/d with |n| <= MaxNum and d <= MaxDen, and the fifths n/5 with
\* |n| <= MaxNum, each the double nearest to n/5 (0.6 is 3/5, 0.8 is 4/5)
IsPow2(d) == d \in {1, 2, 4, 8, 16}
RoundedDens == {5}
Representable(a) ==
  \/ ~IsFinite(a)
  \/ IsZero(a)
  \/ (Abs(a.n) <= MaxNum /\ a.d <= MaxDen /\ IsPow2(a.d))
  \/ (Abs(a.n) <= MaxNum /\ a.d \in RoundedDens)

\* a number that is the exact value of its double: arithmetic on such numbers
\* is the arithmetic of the rationals as long as the result is Representable
Exact(a) == ~IsFinite(a) \/ IsZero(a) \/ IsPow2(a.d)

\* --------------------------------------------------------------- JS values
\* What a caller can pass or get back: undefined, a number, a two-element
\* array, a plain {x, y} object, a {x, y, width, height} object, a reference
\* to a Vec or to a Rect, a callback, a boolean.
Undef == [t |-> "undefined"]
JNum(a) == [t |-> "number", v |-> a]
JBool(b) == [t |-> "boolean", v |-> b]
JArr(a, b) == [t |-> "array", e0 |-> a, e1 |-> b]
JObj(a, b) == [t |-> "object", x |-> a, y |-> b]
JInputRect(a, b, w, h) ==
  [t |-> "object", x |-> a, y |-> b, width |-> w, height |-> h]
JVec(i) == [t |-> "Vec", id |-> i]
JRect(i) == [t |-> "Rect", id |-> i]
JFn(f) == [t |-> "function", name |-> f]
JStr(str) == [t |-> "string", v |-> str]
\* a plain object whose properties are read in order: a sequence of entries
Entry(key, value) == [key |-> key, value |-> value]
JRecord(entries) == [t |-> "record", entries |-> entries]
\* the outcome of a call that throws
JThrow(error) == [t |-> "throw", error |-> error]
\* an argument list of strings
JArgs(list) == [t |-> "arguments", list |-> list]

VARIABLES
  vecs,    \* the Vec objects that exist: vecs[i] = [x, y], i is the identity
  rects,   \* the Rect objects that exist: rects[i] = [o, d], references to Vecs
  call,    \* the last call: [op, this, a, b]
  ret      \* the value the last call returned

\* ------------------------------------------------------------------- Vec
\* new Vec(x, y)
NewVec(x, y) == [x |-> x, y |-> y]

\* property reads o.x and o.y of an object that is a Vec or a plain record
PropX(o) == IF o.t = "Vec" THEN vecs[o.id].x ELSE o.x
PropY(o) == IF o.t = "Vec" THEN vecs[o.id].y ELSE o.y

\* (mutation) `y ?? 0`: an omitted second number becomes 0
vecDefaultZero(xOrArrayOrObject, y) ==
  IF xOrArrayOrObject.t = "array"
  THEN NewVec(xOrArrayOrObject.e0, xOrArrayOrObject.e1)
  ELSE IF xOrArrayOrObject.t = "number"
  THEN NewVec(xOrArrayOrObject.v, IF y = Undef THEN Zero ELSE y.v)
  ELSE NewVec(PropX(xOrArrayOrObject), PropY(xOrArrayOrObject))

\* (mutation) the array elements are read in the wrong order
vecArraySwapped(xOrArrayOrObject, y) ==
  IF xOrArrayOrObject.t = "array"
  THEN NewVec(xOrArrayOrObject.e1, xOrArrayOrObject.e0)
  ELSE IF xOrArrayOrObject.t = "number"
  THEN NewVec(xOrArrayOrObject.v,
              IF y = Undef THEN xOrArrayOrObject.v ELSE y.v)
  ELSE NewVec(PropX(xOrArrayOrObject), PropY(xOrArrayOrObject))

\* (mutation) `y || xOrArrayOrObject`: a second number 0 (or NaN) is replaced
\* by the first
vecFalsy(xOrArrayOrObject, y) ==
  IF xOrArrayOrObject.t = "array"
  THEN NewVec(xOrArrayOrObject.e0, xOrArrayOrObject.e1)
  ELSE IF xOrArrayOrObject.t = "number"
  THEN NewVec(xOrArrayOrObject.v,
              IF y = Undef \/ IsZero(y.v) \/ IsNaN(y.v)
              THEN xOrArrayOrObject.v ELSE y.v)
  ELSE NewVec(PropX(xOrArrayOrObject), PropY(xOrArrayOrObject))

\* vec(xOrArrayOrObject, y)
vec(xOrArrayOrObject, y) ==
  IF xOrArrayOrObject.t = "array"
  THEN NewVec(xOrArrayOrObject.e0, xOrArrayOrObject.e1)
  ELSE IF xOrArrayOrObject.t = "number"
  THEN NewVec(xOrArrayOrObject.v,
              IF y = Undef THEN xOrArrayOrObject.v ELSE y.v)
  ELSE NewVec(PropX(xOrArrayOrObject), PropY(xOrArrayOrObject))

\* Vec.setX(x)
setX(this, x) == NewVec(x, this.y)

\* Vec.setY(y)
setY(this, y) == NewVec(this.x, y)

\* the callbacks a caller passes to Vec.map: fn(x, y) = [x', y']
MapFns == {"swap", "negate", "zero"}
ApplyFn(f, x, y) ==
  IF f = "swap" THEN <<y, x>>
  ELSE IF f = "negate" THEN <<NumNeg(x), NumNeg(y)>>
  ELSE <<Zero, Zero>>

\* Vec.map(fn)
map(this, fn) ==
  LET r == ApplyFn(fn.name, this.x, this.y) IN NewVec(r[1], r[2])

\* (mutation) the y of the result is computed from this.x
addTypo(this, vecOrX, y) ==
  LET other == IF vecOrX.t = "Vec" THEN vecs[vecOrX.id] ELSE vec(vecOrX, y)
  IN  NewVec(NumAdd(this.x, other.x), NumAdd(this.x, other.y))

\* Vec.add(vecOrX, y)
add(this, vecOrX, y) ==
  LET other == IF vecOrX.t = "Vec" THEN vecs[vecOrX.id] ELSE vec(vecOrX, y)
  IN  NewVec(NumAdd(this.x, other.x), NumAdd(this.y, other.y))

\* (mutation) the y of the result is computed from other.x
subTypo(this, vecOrX, y) ==
  LET other == IF vecOrX.t = "Vec" THEN vecs[vecOrX.id] ELSE vec(vecOrX, y)
  IN  NewVec(NumSub(this.x, other.x), NumSub(this.y, other.x))

\* Vec.sub(vecOrX, y)
sub(this, vecOrX, y) ==
  LET other == IF vecOrX.t = "Vec" THEN vecs[vecOrX.id] ELSE vec(vecOrX, y)
  IN  NewVec(NumSub(this.x, other.x), NumSub(this.y, other.y))

\* (mutation) a zero divisor is replaced by 1: `other.x || 1`
divGuarded(this, vecOrX, y) ==
  LET other == IF vecOrX.t = "Vec" THEN vecs[vecOrX.id] ELSE vec(vecOrX, y)
  IN  NewVec(NumDiv(this.x, IF IsZero(other.x) THEN One ELSE other.x),
             NumDiv(this.y, IF IsZero(other.y) THEN One ELSE other.y))

\* Vec.div(vecOrX, y)
div(this, vecOrX, y) ==
  LET other == IF vecOrX.t = "Vec" THEN vecs[vecOrX.id] ELSE vec(vecOrX, y)
  IN  NewVec(NumDiv(this.x, other.x), NumDiv(this.y, other.y))

\* (mutation) y is not passed on to vec
dotForgetY(this, vecOrX, y) ==
  LET other == IF vecOrX.t = "Vec" THEN vecs[vecOrX.id] ELSE vec(vecOrX, Undef)
  IN  NumAdd(NumMul(this.x, other.x), NumMul(this.y, other.y))

\* Vec.dot(vecOrX, y)
dot(this, vecOrX, y) ==
  LET other == IF vecOrX.t = "Vec" THEN vecs[vecOrX.id] ELSE vec(vecOrX, y)
  IN  NumAdd(NumMul(this.x, other.x), NumMul(this.y, other.y))

\* (mutation) the two products are subtracted the other way round
crossSwapped(this, vecOrX, y) ==
  LET other == IF vecOrX.t = "Vec" THEN vecs[vecOrX.id] ELSE vec(vecOrX, y)
  IN  NumSub(NumMul(other.x, this.y), NumMul(this.x, other.y))

\* Vec.cross(vecOrX, y)
cross(this, vecOrX, y) ==
  LET other == IF vecOrX.t = "Vec" THEN vecs[vecOrX.id] ELSE vec(vecOrX, y)
  IN  NumSub(NumMul(this.x, other.y), NumMul(other.x, this.y))

\* Vec.mul(vecOrX, y)
mul(this, vecOrX, y) ==
  LET other == IF vecOrX.t = "Vec" THEN vecs[vecOrX.id] ELSE vec(vecOrX, y)
  IN  NewVec(NumMul(this.x, other.x), NumMul(this.y, other.y))

\* the argument of Math.sqrt in Vec.len: this.x ** 2 + this.y ** 2
lenSquared(this) == NumAdd(NumMul(this.x, this.x), NumMul(this.y, this.y))

\* (mutation) the square root is not taken
lenNoSqrt(this) == lenSquared(this)

\* Vec.len()
len(this) == NumSqrt(lenSquared(this))

\* (mutation) a vector of length 0 is returned as it is
normGuarded(this) ==
  LET length == len(this)
  IN  IF IsZero(length) THEN NewVec(this.x, this.y)
      ELSE NewVec(NumDiv(this.x, length), NumDiv(this.y, length))

\* Vec.norm()
norm(this) ==
  LET length == len(this)
  IN  NewVec(NumDiv(this.x, length), NumDiv(this.y, length))

\* Vec.rotRad(radians)
rotRad(this, radians) ==
  LET cos == NumCos(radians)
      sin == NumSin(radians)
  IN  NewVec(NumSub(NumMul(this.x, cos), NumMul(this.y, sin)),
             NumAdd(NumMul(this.x, sin), NumMul(this.y, cos)))

\* the angle Vec.rotDeg passes on: (degrees * Math.PI) / 180
degToRad(degrees) == NumDiv(MulPi(degrees), Int2Num(180))

\* Vec.rotDeg(degrees)
rotDeg(this, degrees) == rotRad(this, degToRad(degrees))

\* (mutation) the y of this is compared with other.x
equalsTypo(this, vecOrX, y) ==
  LET other == IF vecOrX.t = "Vec" THEN vecs[vecOrX.id] ELSE vec(vecOrX, y)
  IN  StrictEq(this.x, other.x) /\ StrictEq(this.y, other.x)

\* Vec.equals(vecOrX, y)
equals(this, vecOrX, y) ==
  LET other == IF vecOrX.t = "Vec" THEN vecs[vecOrX.id] ELSE vec(vecOrX, y)
  IN  StrictEq(this.x, other.x) /\ StrictEq(this.y, other.y)

\* ------------------------------------------------------------------ Rect
\* new Rect(o, d); o and d are the two Vecs (by value here, by reference in
\* `rects`)
NewRect(o, d) == [o |-> o, d |-> d]

\* the Vecs a Rect object of the heap refers to
RectVal(r) == NewRect(vecs[r.o], vecs[r.d])

\* (mutation) the dimension is built from the width twice
rectWidthTwice(rectOrOrigin, dim) ==
  IF rectOrOrigin.t = "Vec"
  THEN NewRect(vecs[rectOrOrigin.id], vecs[dim.id])
  ELSE NewRect(vec(JNum(rectOrOrigin.x), JNum(rectOrOrigin.y)),
               vec(JNum(rectOrOrigin.width), JNum(rectOrOrigin.width)))

\* rect(rectOrOrigin, dim)
rect(rectOrOrigin, dim) ==
  IF rectOrOrigin.t = "Vec"
  THEN NewRect(vecs[rectOrOrigin.id], vecs[dim.id])
  ELSE NewRect(vec(JNum(rectOrOrigin.x), JNum(rectOrOrigin.y)),
               vec(JNum(rectOrOrigin.width), JNum(rectOrOrigin.height)))

\* (mutation) the right bound is exclusive
isInRectStrict(this, inputOrO, d) ==
  LET r == IF inputOrO.t = "Rect" THEN RectVal(rects[inputOrO.id])
           ELSE IF inputOrO.t = "Vec" THEN rect(inputOrO, d)
           ELSE rect(inputOrO, Undef)
  IN  /\ NumLte(r.o.x, this.x)
      /\ NumGte(NumAdd(r.o.x, r.d.x), this.x)
      /\ ~StrictEq(NumAdd(r.o.x, r.d.x), this.x)
      /\ NumLte(r.o.y, this.y)
      /\ NumGte(NumAdd(r.o.y, r.d.y), this.y)

\* (mutation) the x test and the y test are joined by `||`
isInRectEither(this, inputOrO, d) ==
  LET r == IF inputOrO.t = "Rect" THEN RectVal(rects[inputOrO.id])
           ELSE IF inputOrO.t = "Vec" THEN rect(inputOrO, d)
           ELSE rect(inputOrO, Undef)
  IN  \/ (NumLte(r.o.x, this.x) /\ NumGte(NumAdd(r.o.x, r.d.x), this.x))
      \/ (NumLte(r.o.y, this.y) /\ NumGte(NumAdd(r.o.y, r.d.y), this.y))

\* Vec.isInRect(inputOrO, d)
isInRect(this, inputOrO, d) ==
  LET r == IF inputOrO.t = "Rect" THEN RectVal(rects[inputOrO.id])
           ELSE IF inputOrO.t = "Vec" THEN rect(inputOrO, d)
           ELSE rect(inputOrO, Undef)
  IN  /\ NumLte(r.o.x, this.x)
      /\ NumGte(NumAdd(r.o.x, r.d.x), this.x)
      /\ NumLte(r.o.y, this.y)
      /\ NumGte(NumAdd(r.o.y, r.d.y), this.y)

\* Rect.setO(origin), on references
setO(this, origin) == NewRect(origin, this.d)

\* (mutation) the body of setO with `origin` renamed: new Rect(dim, this.d)
setDAsSetO(this, dim) == NewRect(dim, this.d)

\* Rect.setD(dim), on references
setD(this, dim) == NewRect(this.o, dim)

\* the callbacks a caller passes to Rect.map: fn(o, d) = [o', d'], on references
RectMapFns == {"swap", "collapse"}
ApplyRectFn(f, o, d) == IF f = "swap" THEN <<d, o>> ELSE <<o, o>>

\* Rect.map(fn), on references
rectMap(this, fn) ==
  LET r == ApplyRectFn(fn.name, this.o, this.d) IN NewRect(r[1], r[2])

\* Rect.equals(other), on references
rectEquals(this, other) ==
  /\ equals(vecs[other.o], JVec(this.o), Undef)
  /\ equals(vecs[other.d], JVec(this.d), Undef)

\* String(a) of a number, as a template literal `${a}` renders it
Digit(i) == <<"0", "1", "2", "3", "4", "5", "6", "7", "8", "9">>[i + 1]

RECURSIVE NatToString(_)
NatToString(i) ==
  IF i < 10 THEN Digit(i) ELSE NatToString(i \div 10) \o Digit(i % 10)

\* finite numbers are n/d with d a divisor of 100: at most two decimals
NumToString(a) ==
  IF IsNaN(a) THEN "NaN"
  ELSE IF IsInf(a) THEN (IF IsNeg(a) THEN "-Infinity" ELSE "Infinity")
  ELSE IF IsZero(a) THEN "0"
  ELSE LET h == (Abs(a.n) * 100) \div a.d
           f == h % 100
       IN  (IF a.n < 0 THEN "-" ELSE "") \o NatToString(h \div 100)
             \o (IF f = 0 THEN ""
                 ELSE IF f % 10 = 0 THEN "." \o Digit(f \div 10)
                 ELSE "." \o Digit(f \div 10) \o Digit(f % 10))

\* `${a}px`
Px(a) == NumToString(a) \o "px"

\* Rect.as.styleObject(); `this` is the Rect, by value
styleObject(this) ==
  JRecord(<< Entry("left", JStr(Px(this.o.x))), Entry("top", JStr(Px(this.o.y))),
             Entry("width", JStr(Px(this.d.x))),
             Entry("height", JStr(Px(this.d.y))) >>)

\* the object the getter Rect.as returns: its two properties are functions
as(this) ==
  JRecord(<< Entry("styleObject", JFn("styleObject")),
             Entry("cssText", JFn("cssText")) >>)

\* the property read o[key] of a plain object: undefined when o has no such
\* property
GetProp(o, key) ==
  IF \E i \in DOMAIN o.entries : o.entries[i].key = key
  THEN o.entries[CHOOSE i \in DOMAIN o.entries : o.entries[i].key = key].value
  ELSE Undef

\* Object.entries(o): the own enumerable properties, in order; a function has
\* none
ObjectEntries(o) == IF o.t = "record" THEN o.entries ELSE << >>

\* entries.map(([key, value]) => `${key}: ${value};`).join(" ")
RECURSIVE JoinEntries(_)
JoinEntries(entries) ==
  IF entries = << >> THEN ""
  ELSE LET e == entries[1]
           text == e.key \o ": " \o e.value.v \o ";"
       IN  IF Len(entries) = 1 THEN text
           ELSE text \o " " \o JoinEntries(Tail(entries))

\* Rect.as.cssText(); `this` is the object the getter returned, and
\* this.styleObject is read, not called
cssText(this) == JStr(JoinEntries(ObjectEntries(GetProp(this, "styleObject"))))

\* f(...): calling a value that is not a function throws a TypeError
CallValue(f, result) == IF f.t = "function" THEN result ELSE JThrow("TypeError")

\* ------------------------------------------------------------ the caller
\* The arguments a caller writes down: number pairs (x, y), single numbers,
\* {x, y, width, height} records and angles.  `lits` is fixed by Init.
VARIABLES
  lits,    \* the literal arguments the caller uses
  left     \* the number of calls the caller still makes

vars == <<vecs, rects, call, ret, lits, left>>

Call(op, this, a, b) == [op |-> op, this |-> this, a |-> a, b |-> b]

VecRefs == {JVec(j) : j \in DOMAIN vecs}
RectRefs == {JRect(j) : j \in DOMAIN rects}

\* argument lists (a, b) of the overloads (other: Vec), (x, y) and (x)
RefArgs == {[a |-> v, b |-> Undef] : v \in VecRefs}
PairArgs == {[a |-> JNum(p[1]), b |-> JNum(p[2])] : p \in lits.pairs}
ScalarArgs == {[a |-> JNum(n), b |-> Undef] : n \in lits.scalars}

RepresentableVec(v) == Representable(v.x) /\ Representable(v.y)

\* the operations that compute with +, -, *, /, ** or Math functions
ArithOps ==
  { "add", "sub", "mul", "div", "dot", "cross", "len", "norm", "rotRad",
    "rotDeg", "isInRect" }

ExactVec(v) == Exact(v.x) /\ Exact(v.y)

\* every number an argument holds is exact
ExactArg(a) ==
  CASE a.t = "Vec" -> ExactVec(vecs[a.id])
    [] a.t = "Rect" -> ExactVec(vecs[rects[a.id].o]) /\ ExactVec(vecs[rects[a.id].d])
    [] a.t = "number" -> Exact(a.v)
    [] a.t = "object" ->
         Exact(a.x) /\ Exact(a.y) /\ Exact(a.width) /\ Exact(a.height)
    [] OTHER -> TRUE

\* the model computes an arithmetic call only on exact operands
ExactOperands(c) ==
  c.op \in ArithOps =>
    /\ ExactVec(vecs[c.this])
    /\ ExactArg(c.a)
    /\ ExactArg(c.b)

\* (mutation) the method writes its result into the receiver and returns it
ReturnVecInPlace(v, c) ==
  /\ left > 0
  /\ ExactOperands(c)
  /\ RepresentableVec(v)
  /\ vecs' = IF c.this = 0 THEN Append(vecs, v) ELSE [vecs EXCEPT ![c.this] = v]
  /\ ret' = JVec(IF c.this = 0 THEN Len(vecs) + 1 ELSE c.this)
  /\ call' = c
  /\ left' = left - 1
  /\ UNCHANGED <<rects, lits>>

\* the call c returns the new Vec v: `return new Vec(...)`
ReturnVec(v, c) ==
  /\ left > 0
  /\ ExactOperands(c)
  /\ RepresentableVec(v)
  /\ vecs' = Append(vecs, v)
  /\ ret' = JVec(Len(vecs) + 1)
  /\ call' = c
  /\ left' = left - 1
  /\ UNCHANGED <<rects, lits>>

\* the call c returns the number n
ReturnNum(n, c) ==
  /\ left > 0
  /\ ExactOperands(c)
  /\ Representable(n)
  /\ ret' = JNum(n)
  /\ call' = c
  /\ left' = left - 1
  /\ UNCHANGED <<vecs, rects, lits>>

\* the call c returns the boolean b
ReturnBool(b, c) ==
  /\ left > 0
  /\ ExactOperands(c)
  /\ ret' = JBool(b)
  /\ call' = c
  /\ left' = left - 1
  /\ UNCHANGED <<vecs, rects, lits>>

\* the call c returns (or throws) the value v, which is no Vec and no Rect
ReturnValue(v, c) ==
  /\ left > 0
  /\ ret' = v
  /\ call' = c
  /\ left' = left - 1
  /\ UNCHANGED <<vecs, rects, lits>>

\* the call c returns the new Rect r, made of existing Vecs
ReturnRect(r, c) ==
  /\ left > 0
  /\ rects' = Append(rects, r)
  /\ ret' = JRect(Len(rects) + 1)
  /\ call' = c
  /\ left' = left - 1
  /\ UNCHANGED <<vecs, lits>>

CallVec ==
  \E g \in PairArgs \cup ScalarArgs
          \cup {[a |-> JArr(p[1], p[2]), b |-> Undef] : p \in lits.pairs}
          \cup {[a |-> JObj(p[1], p[2]), b |-> Undef] : p \in lits.pairs}
          \cup RefArgs :
    ReturnVec(vec(g.a, g.b), Call("vec", 0, g.a, g.b))

CallYx ==
  \E i \in DOMAIN vecs :
    ReturnVec(NewVec(vecs[i].y, vecs[i].x), Call("yx", i, Undef, Undef))

CallSetX ==
  \E i \in DOMAIN vecs, n \in lits.scalars :
    ReturnVec(setX(vecs[i], n), Call("setX", i, JNum(n), Undef))

CallSetY ==
  \E i \in DOMAIN vecs, n \in lits.scalars :
    ReturnVec(setY(vecs[i], n), Call("setY", i, JNum(n), Undef))

CallMap ==
  \E i \in DOMAIN vecs, f \in MapFns :
    ReturnVec(map(vecs[i], JFn(f)), Call("map", i, JFn(f), Undef))

CallAdd ==
  \E i \in DOMAIN vecs, g \in RefArgs \cup PairArgs \cup ScalarArgs :
    ReturnVec(add(vecs[i], g.a, g.b), Call("add", i, g.a, g.b))

CallSub ==
  \E i \in DOMAIN vecs, g \in RefArgs \cup PairArgs \cup ScalarArgs :
    ReturnVec(sub(vecs[i], g.a, g.b), Call("sub", i, g.a, g.b))

CallDiv ==
  \E i \in DOMAIN vecs, g \in RefArgs \cup PairArgs \cup ScalarArgs :
    ReturnVec(div(vecs[i], g.a, g.b), Call("div", i, g.a, g.b))

CallMul ==
  \E i \in DOMAIN vecs, g \in RefArgs \cup PairArgs \cup ScalarArgs :
    ReturnVec(mul(vecs[i], g.a, g.b), Call("mul", i, g.a, g.b))

CallDot ==
  \E i \in DOMAIN vecs, g \in RefArgs \cup PairArgs :
    ReturnNum(dot(vecs[i], g.a, g.b), Call("dot", i, g.a, g.b))

CallCross ==
  \E i \in DOMAIN vecs, g \in RefArgs \cup PairArgs \cup ScalarArgs :
    ReturnNum(cross(vecs[i], g.a, g.b), Call("cross", i, g.a, g.b))

CallLen ==
  \E i \in DOMAIN vecs :
    /\ HasExactSqrt(lenSquared(vecs[i]))
    /\ ReturnNum(len(vecs[i]), Call("len", i, Undef, Undef))

CallNorm ==
  \E i \in DOMAIN vecs :
    /\ HasExactSqrt(lenSquared(vecs[i]))
    /\ ReturnVec(norm(vecs[i]), Call("norm", i, Undef, Undef))

CallRotRad ==
  \E i \in DOMAIN vecs, r \in lits.angles :
    /\ HasExactTrig(r)
    /\ ReturnVec(rotRad(vecs[i], r), Call("rotRad", i, JNum(r), Undef))

CallRotDeg ==
  \E i \in DOMAIN vecs, r \in lits.angles :
    /\ HasExactPiMul(r)
    /\ HasExactTrig(degToRad(r))
    /\ ReturnVec(rotDeg(vecs[i], r), Call("rotDeg", i, JNum(r), Undef))

CallIsInRect ==
  \E i \in DOMAIN vecs :
    \E g \in {[a |-> r, b |-> Undef] : r \in RectRefs}
             \cup {[a |-> JInputRect(q[1], q[2], q[3], q[4]), b |-> Undef] :
                     q \in lits.rects}
             \cup {[a |-> o, b |-> d] : o \in VecRefs, d \in VecRefs} :
      ReturnBool(isInRect(vecs[i], g.a, g.b), Call("isInRect", i, g.a, g.b))

CallEquals ==
  \E i \in DOMAIN vecs, g \in RefArgs \cup PairArgs :
    ReturnBool(equals(vecs[i], g.a, g.b), Call("equals", i, g.a, g.b))

\* rect(origin, dim): the new Rect refers to the two Vecs it was given
CallRectOfVecs ==
  \E o \in DOMAIN vecs, d \in DOMAIN vecs :
    /\ rect(JVec(o), JVec(d)) = RectVal(NewRect(o, d))
    /\ ReturnRect(NewRect(o, d), Call("rect", 0, JVec(o), JVec(d)))

\* rect(record): the new Rect refers to two new Vecs
CallRectOfRecord ==
  \E q \in lits.rects :
    LET input == JInputRect(q[1], q[2], q[3], q[4])
        r == rect(input, Undef)
    IN  /\ left > 0
        /\ RepresentableVec(r.o) /\ RepresentableVec(r.d)
        /\ vecs' = vecs \o <<r.o, r.d>>
        /\ rects' = Append(rects, NewRect(Len(vecs) + 1, Len(vecs) + 2))
        /\ ret' = JRect(Len(rects) + 1)
        /\ call' = Call("rect", 0, input, Undef)
        /\ left' = left - 1
        /\ UNCHANGED lits

CallSetO ==
  \E i \in DOMAIN rects, j \in DOMAIN vecs :
    ReturnRect(setO(rects[i], j), Call("setO", i, JVec(j), Undef))

CallSetD ==
  \E i \in DOMAIN rects, j \in DOMAIN vecs :
    ReturnRect(setD(rects[i], j), Call("setD", i, JVec(j), Undef))

CallRectMap ==
  \E i \in DOMAIN rects, f \in RectMapFns :
    ReturnRect(rectMap(rects[i], JFn(f)), Call("Rect.map", i, JFn(f), Undef))

CallRectEquals ==
  \E i \in DOMAIN rects, j \in DOMAIN rects :
    ReturnBool(rectEquals(rects[i], rects[j]),
               Call("Rect.equals", i, JRect(j), Undef))

\* the four field names a caller passes to `as`
FieldNames == <<"x", "y", "width", "height">>

\* r.as("x", "y", "width", "height"): the getter is read and its value called
CallAs ==
  \E i \in DOMAIN rects :
    ReturnValue(CallValue(as(RectVal(rects[i])), Undef),
                Call("as", i, JArgs(FieldNames), Undef))

\* r.as.css: a property read on the value of the getter
CallAsCss ==
  \E i \in DOMAIN rects :
    ReturnValue(GetProp(as(RectVal(rects[i])), "css"),
                Call("as.css", i, Undef, Undef))

\* r.as.styleObject()
CallStyleObject ==
  \E i \in DOMAIN rects :
    ReturnValue(CallValue(GetProp(as(RectVal(rects[i])), "styleObject"),
                          styleObject(RectVal(rects[i]))),
                Call("as.styleObject", i, Undef, Undef))

\* r.as.cssText()
CallCssText ==
  \E i \in DOMAIN rects :
    ReturnValue(CallValue(GetProp(as(RectVal(rects[i])), "cssText"),
                          cssText(as(RectVal(rects[i])))),
                Call("as.cssText", i, Undef, Undef))

Next ==
  \/ CallVec \/ CallYx \/ CallSetX \/ CallSetY \/ CallMap
  \/ CallAdd \/ CallSub \/ CallDiv \/ CallMul \/ CallDot \/ CallCross
  \/ CallLen \/ CallNorm \/ CallRotRad \/ CallRotDeg
  \/ CallIsInRect \/ CallEquals
  \/ CallRectOfVecs \/ CallRectOfRecord
  \/ CallSetO \/ CallSetD \/ CallRectMap \/ CallRectEquals
  \/ CallAs \/ CallAsCss \/ CallStyleObject \/ CallCssText

\* ------------------------------------------------------------------ inputs
Two == Int2Num(2)
Three == Int2Num(3)
Four == Int2Num(4)
MinusOne == Int2Num(-1)
Half == Fin(1, 2)

\* the vectors a caller starts from, as (x, y)
InputVecs ==
  { <<One, Two>>, <<Three, Four>>, <<Zero, Zero>>, <<Two, Two>>,
    <<MinusOne, Half>>, <<NaN, One>>, <<PosInf, MinusOne>>, <<NegZero, Two>>,
    <<Two, PosInf>> }

\* the literal arguments of a caller that makes one call
WideLits ==
  [ pairs   |-> { <<Zero, Zero>>, <<One, One>>, <<Three, Four>>,
                  <<Zero, One>>, <<Two, Zero>>, <<MinusOne, Two>>,
                  <<NaN, Zero>>, <<PosInf, One>> },
    scalars |-> { Zero, One, Two, MinusOne, NaN, PosInf },
    rects   |-> { <<Zero, Zero, Two, Three>>, <<One, Two, Zero, Zero>>,
                  <<One, Two, Three, Four>>, <<NaN, One, One, Two>>,
                  <<Zero, One, One, One>>, <<Two, Two, MinusOne, MinusOne>>,
                  <<MinusOne, Zero, Four, PosInf>>, <<NaN, Zero, One, One>> },
    angles  |-> { Zero, NegZero, NaN, PosInf, One } ]

\* a caller that has built two vectors and a rectangle of them, and makes
\* one more call
Init ==
  \E v \in InputVecs, w \in InputVecs :
    /\ vecs = <<vec(JNum(v[1]), JNum(v[2])), vec(JNum(w[1]), JNum(w[2]))>>
    /\ rects = <<NewRect(1, 2)>>
    /\ call = Call("rect", 0, JVec(1), JVec(2))
    /\ ret = JRect(1)
    /\ lits = WideLits
    /\ left = 1

Spec == Init /\ [][Next]_vars

\* the literal arguments of a caller that chains calls
ChainLits ==
  [ pairs   |-> { <<One, Zero>> },
    scalars |-> { Two },
    rects   |-> { <<Zero, Zero, Two, Two>> },
    angles  |-> { Zero } ]

ChainVecs == { <<One, Two>>, <<NaN, Zero>> }

\* a caller that has built two vectors and a rectangle of them and chains
\* MaxChain calls, each of which may use the results of the calls before it
InitChain ==
  \E v \in ChainVecs :
    /\ vecs = <<vec(JNum(v[1]), JNum(v[2])), vec(JNum(Two), Undef)>>
    /\ rects = <<NewRect(1, 2)>>
    /\ call = Call("rect", 0, JVec(1), JVec(2))
    /\ ret = JRect(1)
    /\ lits = ChainLits
    /\ left = MaxChain

SpecChain == InitChain /\ [][Next]_vars

\* ------------------------------------------------------------------ claims
\* the receiver of the last call and the value the last call returned
This == vecs[call.this]
RetVec == vecs[ret.id]

\* the second operand of the last call after resolution: the Vec passed, or
\* the pair (x, y), or (x, x) when y was omitted
Other ==
  IF call.a.t = "Vec" THEN vecs[call.a.id]
  ELSE IF call.b = Undef THEN [x |-> call.a.v, y |-> call.a.v]
  ELSE [x |-> call.a.v, y |-> call.b.v]

\* the 15 operations of Vec
VecOps ==
  { "setX", "setY", "map", "add", "sub", "div", "mul", "dot", "cross",
    "len", "norm", "rotRad", "rotDeg", "isInRect", "equals" }

\* C1: every step that is a Vec operation leaves every existing Vec object
\* (the receiver and every argument among them) with the x and y it had, and
\* a Vec it returns is an object that did not exist before the call.
C1_Immutable ==
  [][ call'.op \in VecOps =>
        /\ \A i \in DOMAIN vecs : i \in DOMAIN vecs' /\ vecs'[i] = vecs[i]
        /\ ret'.t = "Vec" =>
             ret'.id \notin DOMAIN vecs /\ ret'.id \in DOMAIN vecs' ]_vars

\* a chain: the receiver is the result of an earlier call, the argument a Vec
C1_Witness ==
  /\ left = 0
  /\ call.op = "sub" /\ call.this = 3 /\ call.a = JVec(1)
  /\ ret = JVec(4)
  /\ vecs[1] = NewVec(One, Two) /\ vecs[3] = NewVec(Three, Four)
  /\ vecs[4] = NewVec(Two, Two)

\* C2: vec(x, y), vec([x, y]) and vec({x, y}) return a vector with components
\* x and y; vec(x) returns a vector with components (x, x).
C2_Factory ==
  call.op = "vec" =>
    /\ ret.t = "Vec"
    /\ (call.a.t = "number" /\ call.b # Undef) =>
         (RetVec.x = call.a.v /\ RetVec.y = call.b.v)
    /\ (call.a.t = "number" /\ call.b = Undef) =>
         (RetVec.x = call.a.v /\ RetVec.y = call.a.v)
    /\ call.a.t = "array" =>
         (RetVec.x = call.a.e0 /\ RetVec.y = call.a.e1)
    /\ call.a.t = "object" =>
         (RetVec.x = call.a.x /\ RetVec.y = call.a.y)
    /\ call.a.t = "Vec" =>
         (RetVec.x = vecs[call.a.id].x /\ RetVec.y = vecs[call.a.id].y)

\* the factory was called with one number, and with an array
C2_Witness ==
  /\ call.op = "vec" /\ call.a.t = "array"
  /\ call.a.e0 = Three /\ call.a.e1 = Four
  /\ RetVec = NewVec(Three, Four)

\* the binary operations of Vec
BinOps == { "add", "sub", "div", "mul", "dot", "cross", "equals" }

\* v.op(a, b) for a binary operation: a Vec (by value), a number or a boolean
ApplyBin(op, this, a, b) ==
  CASE op = "add" -> add(this, a, b)
    [] op = "sub" -> sub(this, a, b)
    [] op = "div" -> div(this, a, b)
    [] op = "mul" -> mul(this, a, b)
    [] op = "dot" -> dot(this, a, b)
    [] op = "cross" -> cross(this, a, b)
    [] op = "equals" -> equals(this, a, b)

\* the value the last call returned: a Vec (by value), a number or a boolean
RetValue == IF ret.t = "Vec" THEN vecs[ret.id] ELSE ret.v

\* C3: a binary operation called with a Vec returns what it returns when
\* called with the two components of that Vec as a literal pair.
C3_Interchangeable ==
  (call.op \in BinOps /\ call.a.t = "Vec") =>
    RetValue = ApplyBin(call.op, This, JNum(vecs[call.a.id].x),
                        JNum(vecs[call.a.id].y))

\* vec(1, 2).cross(w) with w = vec(3, 4) returned -2
C3_Witness ==
  /\ call.op = "cross" /\ call.a.t = "Vec"
  /\ This = NewVec(One, Two) /\ vecs[call.a.id] = NewVec(Three, Four)
  /\ ret = JNum(Int2Num(-2))

\* the arithmetic of add, sub, mul and div on one component
NumOp(op, a, b) ==
  CASE op = "add" -> NumAdd(a, b)
    [] op = "sub" -> NumSub(a, b)
    [] op = "mul" -> NumMul(a, b)
    [] op = "div" -> NumDiv(a, b)

\* C4: add, sub, mul and div called with one number s return what they return
\* for the pair (s, s), which is (v.x op s, v.y op s).
C4_ScalarShorthand ==
  (call.op \in {"add", "sub", "mul", "div"}
     /\ call.a.t = "number" /\ call.b = Undef) =>
    /\ RetVec = ApplyBin(call.op, This, call.a, call.a)
    /\ RetVec = NewVec(NumOp(call.op, This.x, call.a.v),
                       NumOp(call.op, This.y, call.a.v))

\* vec(1, 2).mul(2) returned (2, 4)
C4_Witness ==
  /\ call.op = "mul" /\ call.a = JNum(Two) /\ call.b = Undef
  /\ This = NewVec(One, Two) /\ RetVec = NewVec(Two, Four)

\* the last call was v.add(0, 0) or v.mul(1, 1)
IsIdentityCall ==
  \/ call.op = "add" /\ call.a = JNum(Zero) /\ call.b = JNum(Zero)
  \/ call.op = "mul" /\ call.a = JNum(One) /\ call.b = JNum(One)

\* C5 as claimed: for every vector v, v.add(0, 0).equals(v) and
\* v.mul(1, 1).equals(v) are true.
C5_Original ==
  IsIdentityCall => equals(RetVec, JVec(call.this), Undef)

\* C5 as amended: for every vector v with no NaN component, v.add(0, 0).equals(v)
\* and v.mul(1, 1).equals(v) are true.
C5_Identity ==
  (IsIdentityCall /\ ~IsNaN(This.x) /\ ~IsNaN(This.y)) =>
    equals(RetVec, JVec(call.this), Undef)

\* vec(Infinity, -1).mul(1, 1) returned a vector that equals the receiver
C5_Witness ==
  /\ call.op = "mul" /\ call.a = JNum(One) /\ call.b = JNum(One)
  /\ This = NewVec(PosInf, MinusOne)
  /\ equals(RetVec, JVec(call.this), Undef)

\* the last call was v.sub(w) with w a Vec that has the components of v
IsSubSelf ==
  call.op = "sub" /\ call.a.t = "Vec" /\ vecs[call.a.id] = This

\* C6 as claimed: for every vector v, v.sub(v).equals(vec(0, 0)) is true.
C6_Original ==
  IsSubSelf => equals(RetVec, JNum(Zero), JNum(Zero))

\* C6 as amended: for every vector v with finite components,
\* v.sub(v).equals(vec(0, 0)) is true.
C6_SubSelf ==
  (IsSubSelf /\ IsFinite(This.x) /\ IsFinite(This.y)) =>
    equals(RetVec, JNum(Zero), JNum(Zero))

\* v = vec(1, 2), v.sub(v) returned a vector that equals vec(0, 0)
C6_Witness ==
  /\ call.op = "sub" /\ call.a = JVec(call.this)
  /\ This = NewVec(One, Two)
  /\ equals(RetVec, JNum(Zero), JNum(Zero))

FiniteVec(v) == IsFinite(v.x) /\ IsFinite(v.y)

\* C7 as claimed: for all vectors a and b, a.cross(b) is a.x*b.y - a.y*b.x,
\* a.cross(b) = -(b.cross(a)), and a.cross(a) = 0.
C7_Original ==
  call.op = "cross" =>
    /\ ret.v = NumSub(NumMul(This.x, Other.y), NumMul(This.y, Other.x))
    /\ StrictEq(ret.v, NumNeg(cross(Other, JVec(call.this), Undef)))
    /\ Other = This => StrictEq(ret.v, Zero)

\* C7 as amended: for all vectors a and b, a.cross(b) is a.x*b.y - a.y*b.x;
\* when the components of a and b are finite, a.cross(b) = -(b.cross(a)) and
\* a.cross(a) = 0.
C7_Cross ==
  call.op = "cross" =>
    /\ ret.v = NumSub(NumMul(This.x, Other.y), NumMul(This.y, Other.x))
    /\ (FiniteVec(This) /\ FiniteVec(Other)) =>
         /\ StrictEq(ret.v, NumNeg(cross(Other, JVec(call.this), Undef)))
         /\ Other = This => StrictEq(ret.v, Zero)

\* vec(1, 2).cross(3, 4) returned -2
C7_Witness ==
  /\ call.op = "cross" /\ call.a = JNum(Three) /\ call.b = JNum(Four)
  /\ This = NewVec(One, Two)
  /\ ret = JNum(Int2Num(-2))

\* the x, y, width and height of the rectangle passed to isInRect, in each of
\* its three forms
RectArg ==
  IF call.a.t = "Rect"
  THEN [x |-> vecs[rects[call.a.id].o].x, y |-> vecs[rects[call.a.id].o].y,
        width |-> vecs[rects[call.a.id].d].x,
        height |-> vecs[rects[call.a.id].d].y]
  ELSE IF call.a.t = "Vec"
  THEN [x |-> vecs[call.a.id].x, y |-> vecs[call.a.id].y,
        width |-> vecs[call.b.id].x, height |-> vecs[call.b.id].y]
  ELSE [x |-> call.a.x, y |-> call.a.y,
        width |-> call.a.width, height |-> call.a.height]

\* r.x <= p.x <= r.x + r.width and r.y <= p.y <= r.y + r.height
Inside(p, r) ==
  /\ NumLte(r.x, p.x) /\ NumLte(p.x, NumAdd(r.x, r.width))
  /\ NumLte(r.y, p.y) /\ NumLte(p.y, NumAdd(r.y, r.height))

\* C8: v.isInRect(r) is true exactly when r.x <= v.x <= r.x + r.width and
\* r.y <= v.y <= r.y + r.height, in each of the three forms r is passed in,
\* and it is what isInRect returns for the flat record of the same rectangle.
C8_IsInRect ==
  call.op = "isInRect" =>
    /\ ret.v <=> Inside(This, RectArg)
    /\ ret.v <=> isInRect(This, JInputRect(RectArg.x, RectArg.y,
                                           RectArg.width, RectArg.height),
                          Undef)

\* vec(1, 2) is the only point of the record {x: 1, y: 2, width: 0, height: 0}:
\* it lies on all four bounds and is inside
C8_Witness ==
  /\ call.op = "isInRect" /\ call.a = JInputRect(One, Two, Zero, Zero)
  /\ This = NewVec(One, Two)
  /\ ret = JBool(TRUE)

\* the last call was rect(record): the Rects other than the returned one that
\* have the components of the record
SameAsRecord ==
  { i \in DOMAIN rects \ {ret.id} :
      /\ vecs[rects[i].o] = NewVec(call.a.x, call.a.y)
      /\ vecs[rects[i].d] = NewVec(call.a.width, call.a.height) }

\* what C9 says of the two forms of rect apart from equals
RectCanonical ==
  /\ call.a.t = "Vec" => rects[ret.id] = NewRect(call.a.id, call.b.id)
  /\ call.a.t = "object" =>
       /\ vecs[rects[ret.id].o] = NewVec(call.a.x, call.a.y)
       /\ vecs[rects[ret.id].d] = NewVec(call.a.width, call.a.height)

\* C9 as claimed: rect({x, y, width, height}) has origin (x, y) and dimension
\* (width, height), rect(o, d) has origin o and dimension d, and
\* rect(vec(x, y), vec(w, h)).equals(rect({x, y, width: w, height: h})) is
\* true for all x, y, w, h.
C9_Original ==
  call.op = "rect" =>
    /\ RectCanonical
    /\ call.a.t = "object" =>
         \A i \in SameAsRecord : rectEquals(rects[i], rects[ret.id])

\* C9 as amended: the same, with the equality for all x, y, w, h that are not
\* NaN.
C9_RectFactory ==
  call.op = "rect" =>
    /\ RectCanonical
    /\ (/\ call.a.t = "object"
        /\ ~IsNaN(call.a.x) /\ ~IsNaN(call.a.y)
        /\ ~IsNaN(call.a.width) /\ ~IsNaN(call.a.height)) =>
         \A i \in SameAsRecord : rectEquals(rects[i], rects[ret.id])

\* rect(vec(1, 2), vec(3, 4)) equals rect({x: 1, y: 2, width: 3, height: 4})
C9_Witness ==
  /\ call.op = "rect" /\ call.a = JInputRect(One, Two, Three, Four)
  /\ SameAsRecord = {1}
  /\ rects[1] = NewRect(1, 2) /\ rects[ret.id] = NewRect(3, 4)
  /\ rectEquals(rects[1], rects[ret.id])

\* C10: r.setO(v) returns a new Rect with origin v and the dimension of r,
\* r.setD(v) returns a new Rect with the origin of r and dimension v, no
\* existing Rect or Vec changes, and r.setO(a).setD(b) and r.setD(b).setO(a)
\* are the same rectangle.
C10_Setters ==
  [][ /\ call'.op \in {"setO", "setD"} =>
           /\ vecs' = vecs
           /\ \A i \in DOMAIN rects : i \in DOMAIN rects' /\ rects'[i] = rects[i]
           /\ ret'.t = "Rect"
           /\ ret'.id \notin DOMAIN rects /\ ret'.id \in DOMAIN rects'
      /\ call'.op = "setO" =>
           /\ rects'[ret'.id] = NewRect(call'.a.id, rects[call'.this].d)
           /\ \A i \in DOMAIN rects, b \in DOMAIN vecs :
                rects[call'.this] = setD(rects[i], b) =>
                  rects'[ret'.id] = setD(setO(rects[i], call'.a.id), b)
      /\ call'.op = "setD" =>
           /\ rects'[ret'.id] = NewRect(rects[call'.this].o, call'.a.id)
           /\ \A i \in DOMAIN rects, a \in DOMAIN vecs :
                rects[call'.this] = setO(rects[i], a) =>
                  rects'[ret'.id] = setO(setD(rects[i], call'.a.id), a) ]_vars

\* r = rect(v1, v2); r.setO(v2).setD(v1) returned the Rect (v2, v1)
C10_Witness ==
  /\ left = 0
  /\ call.op = "setD" /\ call.this = 2 /\ call.a = JVec(1)
  /\ rects = <<NewRect(1, 2), NewRect(2, 2), NewRect(2, 1)>>

\* the receiver and the argument of Rect.equals, by value
ThisRect == RectVal(rects[call.this])
OtherRect == RectVal(rects[call.a.id])

NoNaNVec(v) == ~IsNaN(v.x) /\ ~IsNaN(v.y)

\* (C13 as stated) equals is reflexive for every Vec and every Rect, symmetric,
\* and true exactly when the components are pairwise equal, whatever the
\* identity of the objects.
C13_Original ==
  /\ call.op = "equals" =>
       /\ ret.v = (StrictEq(This.x, Other.x) /\ StrictEq(This.y, Other.y))
       /\ ret.v = equals(Other, JNum(This.x), JNum(This.y))
       /\ Other = This => ret.v
  /\ call.op = "Rect.equals" =>
       /\ ret.v = (/\ StrictEq(ThisRect.o.x, OtherRect.o.x)
                   /\ StrictEq(ThisRect.o.y, OtherRect.o.y)
                   /\ StrictEq(ThisRect.d.x, OtherRect.d.x)
                   /\ StrictEq(ThisRect.d.y, OtherRect.d.y))
       /\ ret.v = rectEquals(rects[call.a.id], rects[call.this])
       /\ OtherRect = ThisRect => ret.v

\* C13: equals of Vec and of Rect is symmetric and is true exactly when the
\* components are pairwise === (two distinct objects with such components are
\* equal); a.equals(a) is true when no component of a is NaN.
C13_Equals ==
  /\ call.op = "equals" =>
       /\ ret.v = (StrictEq(This.x, Other.x) /\ StrictEq(This.y, Other.y))
       /\ ret.v = equals(Other, JNum(This.x), JNum(This.y))
       /\ (Other = This /\ NoNaNVec(This)) => ret.v
  /\ call.op = "Rect.equals" =>
       /\ ret.v = (/\ StrictEq(ThisRect.o.x, OtherRect.o.x)
                   /\ StrictEq(ThisRect.o.y, OtherRect.o.y)
                   /\ StrictEq(ThisRect.d.x, OtherRect.d.x)
                   /\ StrictEq(ThisRect.d.y, OtherRect.d.y))
       /\ ret.v = rectEquals(rects[call.a.id], rects[call.this])
       /\ (OtherRect = ThisRect /\ NoNaNVec(ThisRect.o) /\ NoNaNVec(ThisRect.d))
            => ret.v

\* r = rect(v1, v2) and r.setO(v1) are two Rect objects, and equal
C13_Witness ==
  /\ left = 0
  /\ call.op = "Rect.equals" /\ call.this = 1 /\ call.a = JRect(2)
  /\ rects = <<NewRect(1, 2), NewRect(1, 2)>>
  /\ vecs[1] = NewVec(One, Two)
  /\ ret = JBool(TRUE)

\* q is what IEEE-754 division gives for a / z, z a zero: NaN when a is NaN or
\* a zero, otherwise the infinity whose sign is the product of the signs
DivByZero(q, a, z) ==
  IF IsNaN(a) \/ IsZero(a) THEN IsNaN(q)
  ELSE IsInf(q) /\ (IsNeg(q) <=> (IsNeg(a) # IsNeg(z)))

\* q is the quotient of the finite a by the finite non-zero b
Quotient(q, a, b) == StrictEq(NumMul(q, b), a)

\* C14: div with a zero divisor component returns a Vec (nothing is raised);
\* the component divided by zero is an infinity or NaN, as IEEE-754 division
\* gives, and a finite component divided by a finite non-zero number is the
\* quotient.
C14_DivByZero ==
  (call.op = "div" /\ (IsZero(Other.x) \/ IsZero(Other.y))) =>
    /\ ret.t = "Vec"
    /\ IsZero(Other.x) => DivByZero(RetVec.x, This.x, Other.x)
    /\ IsZero(Other.y) => DivByZero(RetVec.y, This.y, Other.y)
    /\ (IsFinite(This.x) /\ IsFinite(Other.x) /\ ~IsZero(Other.x)) =>
         Quotient(RetVec.x, This.x, Other.x)
    /\ (IsFinite(This.y) /\ IsFinite(Other.y) /\ ~IsZero(Other.y)) =>
         Quotient(RetVec.y, This.y, Other.y)

\* vec(1, 2).div(0, 1) returned (Infinity, 2)
C14_Witness ==
  /\ call.op = "div" /\ call.a = JNum(Zero) /\ call.b = JNum(One)
  /\ This = NewVec(One, Two)
  /\ RetVec = NewVec(PosInf, Two)

\* C15: norm returns a Vec for every vector; for the zero vector both
\* components are NaN, and for a vector of non-zero length they are x / len
\* and y / len.
C15_Norm ==
  call.op = "norm" =>
    /\ ret.t = "Vec"
    /\ (IsZero(This.x) /\ IsZero(This.y)) =>
         (IsNaN(RetVec.x) /\ IsNaN(RetVec.y))
    /\ ~IsZero(len(This)) =>
         /\ RetVec.x = NumDiv(This.x, len(This))
         /\ RetVec.y = NumDiv(This.y, len(This))

\* vec(0, 0).norm() returned (NaN, NaN)
C15_Witness ==
  /\ call.op = "norm"
  /\ This = NewVec(Zero, Zero)
  /\ RetVec = NewVec(NaN, NaN)

\* the decimal literal 0.k: the double nearest to k/10
Tenths(k) == Fin(k, 10)

\* C16: len returns the non-negative number whose square is x * x + y * y,
\* vec(3, 4).len() is 5, and vec(3, 4).norm().equals(vec(0.6, 0.8)) is true.
C16_Len ==
  /\ call.op = "len" =>
       /\ ret.t = "number"
       /\ (IsFinite(This.x) /\ IsFinite(This.y)) =>
            /\ ~IsNeg(ret.v)
            /\ StrictEq(NumMul(ret.v, ret.v),
                        NumAdd(NumMul(This.x, This.x), NumMul(This.y, This.y)))
       /\ This = NewVec(Three, Four) => ret.v = Int2Num(5)
  /\ (call.op = "norm" /\ This = NewVec(Three, Four)) =>
       /\ StrictEq(len(This), Int2Num(5))
       /\ equals(RetVec, JNum(Tenths(6)), JNum(Tenths(8)))

\* vec(3, 4).norm() returned the vector (3/5, 4/5)
C16_Witness ==
  /\ call.op = "norm"
  /\ This = NewVec(Three, Four)
  /\ RetVec = NewVec(Fin(3, 5), Fin(4, 5))
  /\ equals(RetVec, JNum(Tenths(6)), JNum(Tenths(8)))

\* a and b are the same number: both NaN, or a === b
SameNum(a, b) == (IsNaN(a) /\ IsNaN(b)) \/ StrictEq(a, b)

\* the last call passed the two numbers (a, 0)
ExplicitZero == call.a.t = "number" /\ call.b = JNum(Zero)

\* (C19 as stated) with a second argument 0, add returns (v.x + a, v.y), sub
\* returns (v.x - a, v.y), mul returns (v.x * a, 0) and vec returns (a, 0),
\* for every v and a; with the second argument omitted vec returns (a, a).
C19_Original ==
  /\ (ExplicitZero /\ call.op = "add") =>
       /\ SameNum(RetVec.x, NumAdd(This.x, call.a.v))
       /\ SameNum(RetVec.y, This.y)
  /\ (ExplicitZero /\ call.op = "sub") =>
       /\ SameNum(RetVec.x, NumSub(This.x, call.a.v))
       /\ SameNum(RetVec.y, This.y)
  /\ (ExplicitZero /\ call.op = "mul") =>
       /\ SameNum(RetVec.x, NumMul(This.x, call.a.v))
       /\ SameNum(RetVec.y, Zero)
  /\ (ExplicitZero /\ call.op = "vec") =>
       /\ SameNum(RetVec.x, call.a.v)
       /\ SameNum(RetVec.y, Zero)
  /\ (call.op = "vec" /\ call.a.t = "number" /\ call.b = Undef) =>
       /\ SameNum(RetVec.x, call.a.v)
       /\ SameNum(RetVec.y, call.a.v)

\* C19: with a second argument 0, add returns (v.x + a, v.y), sub returns
\* (v.x - a, v.y), vec returns (a, 0), and mul returns (v.x * a, v.y * 0),
\* which is (v.x * a, 0) when v.y is finite and (v.x * a, NaN) otherwise;
\* with the second argument omitted vec returns (a, a).
C19_ExplicitZero ==
  /\ (ExplicitZero /\ call.op = "add") =>
       /\ SameNum(RetVec.x, NumAdd(This.x, call.a.v))
       /\ SameNum(RetVec.y, This.y)
  /\ (ExplicitZero /\ call.op = "sub") =>
       /\ SameNum(RetVec.x, NumSub(This.x, call.a.v))
       /\ SameNum(RetVec.y, This.y)
  /\ (ExplicitZero /\ call.op = "mul") =>
       /\ SameNum(RetVec.x, NumMul(This.x, call.a.v))
       /\ IF IsFinite(This.y) THEN SameNum(RetVec.y, Zero) ELSE IsNaN(RetVec.y)
  /\ (ExplicitZero /\ call.op = "vec") =>
       /\ SameNum(RetVec.x, call.a.v)
       /\ SameNum(RetVec.y, Zero)
  /\ (call.op = "vec" /\ call.a.t = "number" /\ call.b = Undef) =>
       /\ SameNum(RetVec.x, call.a.v)
       /\ SameNum(RetVec.y, call.a.v)

\* vec(1, 2).mul(2, 0) returned (2, 0), not (2, 4)
C19_Witness ==
  /\ call.op = "mul" /\ call.a = JNum(Two) /\ call.b = JNum(Zero)
  /\ This = NewVec(One, Two)
  /\ RetVec = NewVec(Two, Zero)

\* a < 0, and a < b
Negative(a) == ~IsNaN(a) /\ ~IsZero(a) /\ IsNeg(a)
NumLt(a, b) == NumLte(a, b) /\ ~StrictEq(a, b)

\* (C20 as stated) isInRect returns false for every point when the width or
\* the height of the rectangle is negative.
C20_Original ==
  (call.op = "isInRect" /\ (Negative(RectArg.width) \/ Negative(RectArg.height)))
    => ret = JBool(FALSE)

\* C20: isInRect returns false for every point when the width is negative and
\* x + width is less than x, or the height is negative and y + height is less
\* than y (which is so for every finite origin on which the sum is exact).
C20_Negative ==
  ( /\ call.op = "isInRect"
    /\ \/ /\ Negative(RectArg.width)
          /\ NumLt(NumAdd(RectArg.x, RectArg.width), RectArg.x)
       \/ /\ Negative(RectArg.height)
          /\ NumLt(NumAdd(RectArg.y, RectArg.height), RectArg.y) )
    => ret = JBool(FALSE)

\* the origin (2, 2) of the rectangle {2, 2, -1, -1} is not in it
C20_Witness ==
  /\ call.op = "isInRect"
  /\ call.a = JInputRect(Two, Two, MinusOne, MinusOne)
  /\ This = NewVec(Two, Two)
  /\ ret = JBool(FALSE)

\* the record {[names[1]]: r.o.x, [names[2]]: r.o.y, [names[3]]: r.d.x,
\* [names[4]]: r.d.y} of numbers
Projection(names, r) ==
  JRecord(<< Entry(names[1], JNum(r.o.x)), Entry(names[2], JNum(r.o.y)),
             Entry(names[3], JNum(r.d.x)), Entry(names[4], JNum(r.d.y)) >>)

\* (C11 as stated) r.as("x", "y", "width", "height") returns the record
\* {x: r.o.x, y: r.o.y, width: r.d.x, height: r.d.y}, and rect of that record
\* is a rectangle equal to r.
C11_Original ==
  call.op = "as" =>
    /\ ret = Projection(call.a.list, ThisRect)
    /\ LET back == rect(JInputRect(GetProp(ret, "x").v, GetProp(ret, "y").v,
                                   GetProp(ret, "width").v,
                                   GetProp(ret, "height").v), Undef)
       IN  /\ StrictEq(back.o.x, ThisRect.o.x) /\ StrictEq(back.o.y, ThisRect.o.y)
           /\ StrictEq(back.d.x, ThisRect.d.x) /\ StrictEq(back.d.y, ThisRect.d.y)

\* (C12 as stated) the shortcut r.as.css is the record {left: r.o.x,
\* top: r.o.y, width: r.d.x, height: r.d.y} of numbers.
C12_Original ==
  call.op = "as.css" =>
    ret = Projection(<<"left", "top", "width", "height">>, ThisRect)

\* (C18 as stated) r.as.cssText() is the four entries of r.as.styleObject(),
\* each rendered "key: value;", joined by single spaces in the order left,
\* top, width, height; it is "left: 1px; top: 2px; width: 3px; height: 4px;"
\* for rect(vec(1, 2), vec(3, 4)), and never the empty string.
C18_Original ==
  call.op = "as.cssText" =>
    /\ ret.t = "string"
    /\ ret.v # ""
    /\ ret.v = JoinEntries(styleObject(ThisRect).entries)
    /\ ThisRect = NewRect(NewVec(One, Two), NewVec(Three, Four)) =>
         ret.v = "left: 1px; top: 2px; width: 3px; height: 4px;"

====
